---- MODULE Spec2Model ----
(***************************************************************************)
(* Mission Control orchestration core (chip-orchestration.ts) running      *)
(* against the task store.  One task is modelled.  The store holds the     *)
(* task's status, its sub-agent session rows, its activities and its       *)
(* deliverables.  Callers run the exported functions of the module; every  *)
(* await on a store request is a separate step, so that calls of several   *)
(* callers interleave request by request.                                  *)
(***************************************************************************)
EXTENDS Integers, Sequences, FiniteSets, TLC

VARIABLES
    status,        \* tasks.status of the task
    sessions,      \* openclaw_sessions rows of the task, newest first
    activities,    \* activity_type values with at least one task_activities row
    deliverables,  \* registered task_deliverables (by deliverable id)
    issued,        \* session ids that have been registered so far
    faults,        \* whether store requests may answer with a non-2xx response
    op,            \* per caller: the exported function it is running
    pc,            \* per caller: the await it is suspended at
    arg,           \* per caller: the call's parameters
    loc,           \* per caller: the call's local variables
    legs,          \* per caller: the requests of its Promise.all still in flight
    ret,           \* what the call that has just ended returned or threw
    flow,          \* per caller: how far its calls so far follow the documented workflow
    held           \* callers in whose current endStateCheck call every condition held at once

vars == <<status, sessions, activities, deliverables, issued, faults,
          op, pc, arg, loc, legs, ret, flow, held>>

store == <<status, sessions, activities, deliverables, issued>>

(***************************************************************************)
(* Bounds                                                                  *)
(***************************************************************************)
NumCallers == 2
MaxSessions == 2

Callers == 1..NumCallers
\* sessionId values: `subagent-${Date.now()}`
SessionIds == {<<"subagent", i>> : i \in 1..MaxSessions}

(***************************************************************************)
(* Constants of the program                                                *)
(***************************************************************************)
STATUS_ORDER == <<"inbox", "assigned", "in_progress", "testing", "review", "done">>

Statuses == {STATUS_ORDER[i] : i \in 1..Len(STATUS_ORDER)}

\* LogActivityParams.activityType
ActivityTypes == {"spawned", "updated", "completed", "file_created", "status_changed"}

\* Paths are sequences of characters.  process.env.HOME, the configured
\* PROJECTS_BASE (home-relative) and the id of the task.
HOME == <<"/", "h">>

PROJECTS_BASE == <<"~", "/", "p">>

TaskId == <<"t">>

\* The deliverables callers register in the model: a file under
\* PROJECTS_BASE, a file at an absolute path outside it, and a url.
DeliverableIds == {"fileIn", "fileOut", "url"}

DeliverableType(d) == IF d = "url" THEN "url" ELSE "file"

DeliverablePath(d) ==
    CASE d = "fileIn"  -> <<"~", "/", "p", "/", "t", "/", "a">>
      [] d = "fileOut" -> <<"/", "e", "/", "a">>
      [] d = "url"     -> <<>>

\* The deliverables arrays handed to completeSubAgent.
DeliverableArgs == {{}, {"fileIn"}, {"fileOut"}, {"fileIn", "url"}}

NoSession == <<>>

(***************************************************************************)
(* Pure helpers                                                            *)
(***************************************************************************)
\* Array.prototype.indexOf: 0-based position of the first match, -1 if none.
IndexOf(seq, x) ==
    IF \E i \in 1..Len(seq) : seq[i] = x
    THEN (CHOOSE i \in 1..Len(seq) : seq[i] = x /\ \A j \in 1..(i-1) : seq[j] # x) - 1
    ELSE -1

\* The comparison accepting the next status only.
isValidTransitionNoSkip(from, to) ==
    LET fromIndex == IndexOf(STATUS_ORDER, from)
        toIndex   == IndexOf(STATUS_ORDER, to)
    IN  IF fromIndex = -1 \/ toIndex = -1 THEN FALSE ELSE toIndex = fromIndex + 1

\* The comparison with >= in place of >.
isValidTransitionNonStrict(from, to) ==
    LET fromIndex == IndexOf(STATUS_ORDER, from)
        toIndex   == IndexOf(STATUS_ORDER, to)
    IN  IF fromIndex = -1 \/ toIndex = -1 THEN FALSE ELSE toIndex >= fromIndex

\* fromIndex !== -1 && toIndex !== -1 && toIndex > fromIndex
isValidTransition(from, to) ==
    LET fromIndex == IndexOf(STATUS_ORDER, from)
        toIndex   == IndexOf(STATUS_ORDER, to)
    IN  IF fromIndex = -1 \/ toIndex = -1 THEN FALSE ELSE toIndex > fromIndex

\* String.prototype.startsWith on character sequences.
StartsWith(s, prefix) ==
    /\ Len(prefix) <= Len(s)
    /\ \A i \in 1..Len(prefix) : s[i] = prefix[i]

\* s.replace(/^~/, process.env.HOME || '/tmp')
ExpandHome(s) ==
    IF Len(s) > 0 /\ s[1] = "~" THEN HOME \o Tail(s) ELSE s

\* `${base}/${taskId}/`
DefaultDir(base) == base \o <<"/">> \o TaskId \o <<"/">>

\* safePath returning the candidate without the prefix test.
safePathUnchecked(candidate, taskId) == ExpandHome(candidate)

\* resolved.startsWith(base) ? resolved : `${base}/${taskId}/`
safePath(candidate, taskId) ==
    LET resolved == ExpandHome(candidate)
        base     == ExpandHome(PROJECTS_BASE)
    IN  IF StartsWith(resolved, base) THEN resolved
        ELSE base \o <<"/">> \o taskId \o <<"/">>

\* The outside-PROJECTS_BASE test of logDeliverable that triggers console.warn.
WarnsOutsideBase(d) ==
    /\ DeliverablePath(d) # <<>>
    /\ DeliverableType(d) = "file"
    /\ ~StartsWith(ExpandHome(DeliverablePath(d)), ExpandHome(PROJECTS_BASE))
    /\ ~StartsWith(ExpandHome(DeliverablePath(d)), <<"/">>)

\* existing.filter(s => s.status === 'active'), as the list of their ids.
ActiveSessions(rows) ==
    SelectSeq(rows, LAMBDA s : s.status = "active")

HasActive(rows) == Len(ActiveSessions(rows)) > 0

\* active[0].openclaw_session_id; rows are sorted newest first.
NewestActive(rows) == ActiveSessions(rows)[1].sid

SessionRowIds(rows) == {rows[i].sid : i \in 1..Len(rows)}

(***************************************************************************)
(* The store's request handlers                                            *)
(***************************************************************************)
\* A response: TRUE is 2xx, FALSE a 5xx that leaves the store unchanged.
Responses == IF faults THEN {TRUE, FALSE} ELSE {TRUE}

\* The handler without the master-agent rule.
PatchTaskAcceptsNoMaster(cur, to, master) ==
    IndexOf(STATUS_ORDER, to) >= IndexOf(STATUS_ORDER, cur)

\* PATCH /api/tasks/{id} {status}: rejects a backward transition and a
\* transition to done that no master agent approves.
PatchTaskAccepts(cur, to, master) ==
    /\ IndexOf(STATUS_ORDER, to) >= IndexOf(STATUS_ORDER, cur)
    /\ (to = "done" /\ cur # "done") => master

\* The handler inserting a row whatever the task's sessions are.
PostSubagentNoDedup(rows, sid) ==
    <<[sid |-> sid, status |-> "active"]>> \o rows

\* POST /api/tasks/{id}/subagent: returns the existing active session
\* (_reused) instead of creating a duplicate; otherwise inserts an active row.
PostSubagent(rows, sid) ==
    IF HasActive(rows) THEN rows
    ELSE <<[sid |-> sid, status |-> "active"]>> \o rows

\* PATCH /api/openclaw/sessions/{id} {status, ended_at}
PatchSession(rows, sid, st) ==
    [i \in 1..Len(rows) |->
        IF rows[i].sid = sid THEN [rows[i] EXCEPT !.status = st] ELSE rows[i]]

\* DELETE /api/openclaw/sessions/{id}
DeleteSession(rows, sid) ==
    SelectSeq(rows, LAMBDA s : s.sid # sid)

(***************************************************************************)
(* Caller state                                                            *)
(***************************************************************************)
NoDir == <<>>

NoCaller == <<>>

NoArg == [to |-> "none", master |-> FALSE, sid |-> NoSession, dels |-> {},
          atype |-> "none", del |-> "none", dir |-> NoDir]

NoLoc == [st |-> "none", sid |-> NoSession, dr |-> FALSE, sc |-> FALSE,
          ca |-> FALSE, actOk |-> FALSE, meta |-> NoDir]

NoReport == [deliverablesRegistered |-> FALSE, allDeliverablesExist |-> FALSE,
             sessionsCompleted |-> FALSE, completionActivityLogged |-> FALSE,
             statusIsReview |-> FALSE, ready |-> FALSE]

\* The outcome of the call that ended in the last step: out is "ok" for a
\* normal return, otherwise the error thrown; NoRet when the last step ended
\* no call.
NoRet == [caller |-> NoCaller, op |-> "none", out |-> "none", from |-> "none", to |-> "none",
          null |-> FALSE, reused |-> FALSE, sid |-> NoSession,
          actOk |-> FALSE, warned |-> FALSE, canStart |-> FALSE,
          hasActiveSession |-> FALSE, outputDir |-> NoDir, report |-> NoReport]

NoFlow == [step |-> 0, sid |-> NoSession]

InitWith(f) ==
    /\ status = "inbox"
    /\ sessions = <<>>
    /\ activities = {}
    /\ deliverables = {}
    /\ issued = {}
    /\ faults = f
    /\ op = [p \in Callers |-> "none"]
    /\ pc = [p \in Callers |-> "idle"]
    /\ arg = [p \in Callers |-> NoArg]
    /\ loc = [p \in Callers |-> NoLoc]
    /\ legs = [p \in Callers |-> {}]
    /\ ret = NoRet
    /\ flow = [p \in Callers |-> NoFlow]
    /\ held = {}

Init == InitWith(TRUE)

(***************************************************************************)
(* The documented workflow (usage comment of the module):                  *)
(* 1 preflight with canStart, 2 startWork, 3 spawnSubAgent, progress logs, *)
(* 4 completeSubAgent of the spawned session with deliverables,            *)
(* 5 endStateCheck, then moveToReview if the report is ready.              *)
(***************************************************************************)
FlowAfter(f, a, r) ==
    CASE r.op = "preflight" /\ r.out = "ok" /\ r.canStart /\ r.from = "assigned"
            -> [step |-> 1, sid |-> NoSession]
      [] r.op = "startWork" /\ r.out = "ok" /\ f.step = 1
            -> [step |-> 2, sid |-> NoSession]
      [] r.op = "spawnSubAgent" /\ r.out = "ok" /\ f.step = 2
            -> [step |-> 3, sid |-> r.sid]
      [] r.op \in {"logActivity", "logDeliverable"} /\ f.step = 3
            -> f
      [] r.op = "completeSubAgent" /\ r.out = "ok" /\ f.step = 3
           /\ a.sid = f.sid /\ a.dels # {}
            -> [step |-> 4, sid |-> f.sid]
      [] r.op = "endStateCheck" /\ r.out = "ok" /\ f.step = 4
            -> [step |-> 5, sid |-> f.sid]
      [] OTHER -> NoFlow

\* The call of caller p, made with parameters a, ends: r is what it returns
\* or throws.
Finish(p, a, r) ==
    /\ pc' = [pc EXCEPT ![p] = "idle"]
    /\ op' = [op EXCEPT ![p] = "none"]
    /\ arg' = [arg EXCEPT ![p] = NoArg]
    /\ loc' = [loc EXCEPT ![p] = NoLoc]
    /\ ret' = r
    /\ flow' = [flow EXCEPT ![p] = FlowAfter(flow[p], a, r)]

Result(p, f, out) == [NoRet EXCEPT !.caller = <<p>>, !.op = f, !.out = out]

\* The call of function f by caller p, with parameters a and locals l,
\* suspends at the await named next.
Suspend(p, f, a, l, next) ==
    /\ pc' = [pc EXCEPT ![p] = next]
    /\ op' = [op EXCEPT ![p] = f]
    /\ arg' = [arg EXCEPT ![p] = a]
    /\ loc' = [loc EXCEPT ![p] = l]
    /\ ret' = NoRet
    /\ UNCHANGED flow

\* Caller p is free to call a function: the store handles the function's
\* first request in the same step.
Idle(p) == pc[p] = "idle" /\ legs[p] = {}

\* The awaits of endStateCheck after its first read.
EscPcs == {"es_sessions", "es_activities", "es_task"}

\* What endStateCheck looks for, evaluated on one state of the store: at
\* least one deliverable, no active session, a 'completed' activity, and the
\* status review or done.
AllConditionsHold(dels, rows, acts, st) ==
    /\ dels # {}
    /\ ~HasActive(rows)
    /\ "completed" \in acts
    /\ st \in {"review", "done"}

\* History of the endStateCheck calls: q is in held while, since the first
\* read of the call q is in (or has just returned from), the store has been
\* in a state in which all the conditions held together.
Track ==
    held' = {q \in Callers :
                /\ pc'[q] \in EscPcs \/ (ret'.caller = <<q>> /\ ret'.op = "endStateCheck")
                /\ \/ pc[q] \in EscPcs /\ q \in held
                   \/ AllConditionsHold(deliverables', sessions', activities', status')}

(***************************************************************************)
(* preflight                                                               *)
(***************************************************************************)
\* The dispatcher's OUTPUT_DIR: absent, under PROJECTS_BASE, outside it,
\* PROJECTS_BASE/../../e, and the sibling directory PROJECTS_BASE + "p".
DispatcherDirs ==
    {NoDir, <<"~", "/", "p", "/", "o">>, <<"/", "e">>,
     <<"~", "/", "p", "/", ".", ".", "/", ".", ".", "/", "e">>,
     <<"~", "/", "p", "p">>}

\* The outputDir held in the metadata of the task fetched: absent, or a
\* directory under PROJECTS_BASE.
MetadataDirs == {NoDir, <<"~", "/", "p", "/", "m">>}

\* Step 1: const task = await apiGet(`/api/tasks/${taskId}`)
preflight_getTask(p) ==
    /\ Idle(p)
    /\ \E dir \in DispatcherDirs, meta \in MetadataDirs, ok \in Responses :
        LET a == [NoArg EXCEPT !.dir = dir]
        IN  IF ~ok THEN Finish(p, a, Result(p, "preflight", "StoreError"))
            ELSE Suspend(p, "preflight", a,
                         [NoLoc EXCEPT !.st = status, !.meta = meta], "pf_sessions")
    /\ UNCHANGED <<store, faults, legs>>
    /\ Track

\* preflight refusing the start while a session is active.
preflight_getSessionsIdleOnly(p) ==
    /\ pc[p] = "pf_sessions"
    /\ \E ok \in Responses :
        IF ~ok THEN Finish(p, arg[p], Result(p, "preflight", "StoreError"))
        ELSE LET outputDir == IF arg[p].dir # NoDir THEN arg[p].dir
                              ELSE DefaultDir(PROJECTS_BASE)
             IN  Finish(p, arg[p], [Result(p, "preflight", "ok") EXCEPT
                     !.from = loc[p].st,
                     !.outputDir = safePath(outputDir, TaskId),
                     !.hasActiveSession = HasActive(sessions),
                     !.canStart = loc[p].st \in {"assigned", "in_progress"}
                                     /\ ~HasActive(sessions)])
    /\ UNCHANGED <<store, faults, legs>>
    /\ Track

\* Steps 2 to 5: outputDir (the task's metadata is not read), the sessions
\* read, the status alignment rules
preflight_getSessions(p) ==
    /\ pc[p] = "pf_sessions"
    /\ \E ok \in Responses :
        IF ~ok THEN Finish(p, arg[p], Result(p, "preflight", "StoreError"))
        ELSE LET outputDir == IF arg[p].dir # NoDir THEN arg[p].dir
                              ELSE DefaultDir(PROJECTS_BASE)
             IN  Finish(p, arg[p], [Result(p, "preflight", "ok") EXCEPT
                     !.from = loc[p].st,
                     !.outputDir = safePath(outputDir, TaskId),
                     !.hasActiveSession = HasActive(sessions),
                     !.canStart = loc[p].st \in {"assigned", "in_progress"}])
    /\ UNCHANGED <<store, faults, legs>>
    /\ Track

(***************************************************************************)
(* transitionStatus, startWork, moveToReview                               *)
(***************************************************************************)
\* (newStatus, agentId): master tells whether agentId names a master agent.
TransitionArgs ==
    {[NoArg EXCEPT !.to = to, !.master = m] : to \in Statuses, m \in BOOLEAN}

\* transitionStatus without the validation of the transition.
transitionStatus_getUnvalidated(p) ==
    /\ \E a \in TransitionArgs, ok \in Responses :
        LET f == IF Idle(p) THEN "transitionStatus" ELSE op[p]
        IN  /\ Idle(p) \/ (pc[p] = "ts_get" /\ a = arg[p])
            /\ IF ~ok THEN Finish(p, a, Result(p, f, "StoreError"))
               ELSE Suspend(p, f, a, [NoLoc EXCEPT !.st = status], "ts_patch")
    /\ UNCHANGED <<store, faults, legs>>
    /\ Track

\* const task = await apiGet(...); if (!isValidTransition(...)) throw
\* Reached by a call of transitionStatus, or from startWork and moveToReview.
transitionStatus_get(p) ==
    /\ \E a \in TransitionArgs, ok \in Responses :
        LET f == IF Idle(p) THEN "transitionStatus" ELSE op[p]
        IN  /\ Idle(p) \/ (pc[p] = "ts_get" /\ a = arg[p])
            /\ IF ~ok THEN Finish(p, a, Result(p, f, "StoreError"))
               ELSE IF ~isValidTransition(status, a.to)
               THEN Finish(p, a, [Result(p, f, "InvalidTransition") EXCEPT
                                     !.from = status, !.to = a.to])
               ELSE Suspend(p, f, a, [NoLoc EXCEPT !.st = status], "ts_patch")
    /\ UNCHANGED <<store, faults, legs>>
    /\ Track

\* return apiPatch(`/api/tasks/${taskId}`, body)
transitionStatus_patch(p) ==
    /\ pc[p] = "ts_patch"
    /\ \E ok \in Responses :
        IF ok /\ PatchTaskAccepts(status, arg[p].to, arg[p].master)
        THEN /\ status' = arg[p].to
             /\ Finish(p, arg[p], [Result(p, op[p], "ok") EXCEPT
                                      !.from = loc[p].st, !.to = arg[p].to])
        ELSE /\ UNCHANGED status
             /\ Finish(p, arg[p], [Result(p, op[p], IF ok THEN "Rejected" ELSE "StoreError")
                                      EXCEPT !.to = arg[p].to])
    /\ UNCHANGED <<sessions, activities, deliverables, issued, faults, legs>>
    /\ Track

\* startWork without the no-op for a task already in progress.
startWork_getNoNoop(p) ==
    /\ Idle(p)
    /\ \E ok \in Responses :
        IF ~ok THEN Finish(p, NoArg, Result(p, "startWork", "StoreError"))
        ELSE IF status # "assigned"
        THEN Finish(p, NoArg, [Result(p, "startWork", "CannotStart") EXCEPT
                                  !.from = status])
        ELSE Suspend(p, "startWork", [NoArg EXCEPT !.to = "in_progress"],
                     NoLoc, "ts_get")
    /\ UNCHANGED <<store, faults, legs>>
    /\ Track

\* const task = await apiGet(...); null when in_progress, throws unless
\* assigned, else return transitionStatus(taskId, 'in_progress')
startWork_get(p) ==
    /\ Idle(p)
    /\ \E ok \in Responses :
        IF ~ok THEN Finish(p, NoArg, Result(p, "startWork", "StoreError"))
        ELSE IF status = "in_progress"
        THEN Finish(p, NoArg, [Result(p, "startWork", "ok") EXCEPT
                                  !.null = TRUE, !.from = status])
        ELSE IF status # "assigned"
        THEN Finish(p, NoArg, [Result(p, "startWork", "CannotStart") EXCEPT
                                  !.from = status])
        ELSE Suspend(p, "startWork", [NoArg EXCEPT !.to = "in_progress"],
                     NoLoc, "ts_get")
    /\ UNCHANGED <<store, faults, legs>>
    /\ Track

\* moveToReview without the deliverables precondition.
moveToReviewUnchecked(p) ==
    /\ Idle(p)
    /\ \E ok \in Responses :
        Suspend(p, "moveToReview", [NoArg EXCEPT !.to = "review"], NoLoc, "ts_get")
    /\ UNCHANGED <<store, faults, legs>>
    /\ Track

\* const deliverables = await getDeliverables(taskId), which answers [] when
\* its GET fails; throws on an empty list, else calls transitionStatus.
moveToReview_getDeliverables(p) ==
    /\ Idle(p)
    /\ \E ok \in Responses :
        LET read == IF ok THEN deliverables ELSE {}
        IN  IF Cardinality(read) = 0
            THEN Finish(p, NoArg, Result(p, "moveToReview", "PreconditionFailed"))
            ELSE Suspend(p, "moveToReview", [NoArg EXCEPT !.to = "review"],
                         NoLoc, "ts_get")
    /\ UNCHANGED <<store, faults, legs>>
    /\ Track

(***************************************************************************)
(* Promise.all: the requests of one call are in flight together and are    *)
(* answered in any order.  The call resumes when the last one is answered, *)
(* or throws as soon as one rejects; the others stay in flight and still   *)
(* reach the store.  A caller makes its next call once the requests of its *)
(* previous one have been answered.                                        *)
(***************************************************************************)
InAll(p) == pc[p] \in {"sp_all", "cs_all", "rejected"}

\* Request l of caller p has been answered without rejecting; actOk tells
\* whether the call's activity POST has been accepted.
Answered(p, l, actOk) ==
    /\ legs' = [legs EXCEPT ![p] = legs[p] \ {l}]
    /\ IF legs[p] = {l} /\ pc[p] # "rejected"
       THEN Finish(p, arg[p], [Result(p, op[p], "ok") EXCEPT
                                  !.sid = arg[p].sid, !.actOk = actOk])
       ELSE /\ loc' = [loc EXCEPT ![p].actOk = actOk]
            /\ pc' = [pc EXCEPT ![p] = IF legs[p] = {l} THEN "idle" ELSE pc[p]]
            /\ ret' = NoRet
            /\ UNCHANGED <<op, arg, flow>>

\* logActivity inside a Promise.all letting the failure of its POST reject
\* the Promise.all.
all_logActivityThrowing(p) ==
    /\ InAll(p)
    /\ \E l \in legs[p] \cap ActivityTypes, ok \in Responses :
        IF ok \/ pc[p] = "rejected"
        THEN /\ activities' = IF ok THEN activities \cup {l} ELSE activities
             /\ Answered(p, l, ok)
        ELSE /\ UNCHANGED activities
             /\ legs' = [legs EXCEPT ![p] = legs[p] \ {l}]
             /\ ret' = [Result(p, op[p], "StoreError") EXCEPT !.sid = arg[p].sid]
             /\ flow' = [flow EXCEPT ![p] = NoFlow]
             /\ pc' = [pc EXCEPT ![p] = IF legs[p] = {l} THEN "idle" ELSE "rejected"]
             /\ op' = [op EXCEPT ![p] = "none"]
             /\ arg' = [arg EXCEPT ![p] = NoArg]
             /\ loc' = [loc EXCEPT ![p] = NoLoc]
    /\ UNCHANGED <<status, sessions, deliverables, issued, faults>>
    /\ Track

\* logActivity inside a Promise.all: POST /activities, failure swallowed.
all_logActivity(p) ==
    /\ InAll(p)
    /\ \E l \in legs[p] \cap ActivityTypes, ok \in Responses :
        /\ activities' = IF ok THEN activities \cup {l} ELSE activities
        /\ Answered(p, l, ok)
    /\ UNCHANGED <<status, sessions, deliverables, issued, faults>>
    /\ Track

\* logDeliverable inside completeSubAgent: POST /deliverables, failure swallowed.
all_logDeliverable(p) ==
    /\ InAll(p)
    /\ \E l \in legs[p] \cap DeliverableIds, ok \in Responses :
        /\ deliverables' = IF ok THEN deliverables \cup {l} ELSE deliverables
        /\ Answered(p, l, loc[p].actOk)
    /\ UNCHANGED <<status, sessions, activities, issued, faults>>
    /\ Track

\* The Promise.all of caller p rejects with error e while request l is answered.
Rejected(p, l, e) ==
    /\ legs' = [legs EXCEPT ![p] = legs[p] \ {l}]
    /\ ret' = [Result(p, op[p], e) EXCEPT !.sid = arg[p].sid]
    /\ flow' = [flow EXCEPT ![p] = NoFlow]
    /\ pc' = [pc EXCEPT ![p] = IF legs[p] = {l} THEN "idle" ELSE "rejected"]
    /\ op' = [op EXCEPT ![p] = "none"]
    /\ arg' = [arg EXCEPT ![p] = NoArg]
    /\ loc' = [loc EXCEPT ![p] = NoLoc]

(***************************************************************************)
(* spawnSubAgent, completeSubAgent, deleteStuckSession                     *)
(***************************************************************************)
\* sessionId: `subagent-${Date.now()}`, an id that no session registered so
\* far and no other call in progress carries.  The reuse branch never reads
\* the parameter, so the model draws it where the call goes on to register.
FreshSessionIds ==
    {s \in SessionIds :
        /\ s \notin issued
        /\ \A q \in Callers : ~(op[q] = "spawnSubAgent" /\ arg[q].sid = s)}

NextSessionId ==
    CHOOSE s \in FreshSessionIds : \A t \in FreshSessionIds : s[2] <= t[2]

\* spawnSubAgent without the duplicate check on the session list.
spawnSubAgent_listNoCheck(p) ==
    /\ Idle(p)
    /\ \E ok \in Responses :
        IF ~ok
        THEN /\ Finish(p, NoArg, Result(p, "spawnSubAgent", "StoreError"))
             /\ UNCHANGED legs
        ELSE /\ FreshSessionIds # {}
             /\ Suspend(p, "spawnSubAgent", [NoArg EXCEPT !.sid = NextSessionId],
                        NoLoc, "sp_all")
             /\ legs' = [legs EXCEPT ![p] = {"spawned", "session"}]
    /\ UNCHANGED <<store, faults>>
    /\ Track

\* const existing = await apiGet(.../subagent); active = existing.filter(...)
spawnSubAgent_list(p) ==
    /\ Idle(p)
    /\ \E ok \in Responses :
        IF ~ok
        THEN /\ Finish(p, NoArg, Result(p, "spawnSubAgent", "StoreError"))
             /\ UNCHANGED legs
        ELSE IF Len(ActiveSessions(sessions)) > 0
        THEN /\ Suspend(p, "spawnSubAgent", NoArg,
                        [NoLoc EXCEPT !.sid = NewestActive(sessions)], "sp_reuse")
             /\ UNCHANGED legs
        ELSE /\ FreshSessionIds # {}
             /\ Suspend(p, "spawnSubAgent", [NoArg EXCEPT !.sid = NextSessionId],
                        NoLoc, "sp_all")
             /\ legs' = [legs EXCEPT ![p] = {"spawned", "session"}]
    /\ UNCHANGED <<store, faults>>
    /\ Track

\* await logActivity({activityType: 'updated', ...}); return {reused: true}
spawnSubAgent_logReuse(p) ==
    /\ pc[p] = "sp_reuse"
    /\ \E ok \in Responses :
        /\ activities' = IF ok THEN activities \cup {"updated"} ELSE activities
        /\ Finish(p, arg[p], [Result(p, "spawnSubAgent", "ok") EXCEPT
                                 !.sid = loc[p].sid, !.reused = TRUE, !.actOk = ok])
    /\ UNCHANGED <<status, sessions, deliverables, issued, faults, legs>>
    /\ Track

\* apiPost(`/api/tasks/${taskId}/subagent`, {openclaw_session_id, agent_name})
spawnSubAgent_post(p) ==
    /\ pc[p] = "sp_all"
    /\ "session" \in legs[p]
    /\ \E ok \in Responses :
        IF ok
        THEN /\ sessions' = PostSubagent(sessions, arg[p].sid)
             /\ issued' = issued \cup (SessionRowIds(sessions') \cap {arg[p].sid})
             /\ Answered(p, "session", loc[p].actOk)
        ELSE /\ Rejected(p, "session", "StoreError")
             /\ UNCHANGED <<sessions, issued>>
    /\ UNCHANGED <<status, activities, deliverables, faults>>
    /\ Track

\* The call issues all its requests at once: the completion activity, the
\* session PATCH and one logDeliverable per deliverable.
Call_completeSubAgent(p, DelArgs) ==
    /\ Idle(p)
    /\ \E sid \in SessionIds, dels \in DelArgs :
        /\ Suspend(p, "completeSubAgent", [NoArg EXCEPT !.sid = sid, !.dels = dels],
                   NoLoc, "cs_all")
        /\ legs' = [legs EXCEPT ![p] = {"completed", "session"} \cup dels]
    /\ UNCHANGED <<store, faults>>
    /\ Track

\* completeSubAgent with the session PATCH sending status 'active'.
completeSubAgent_patchActive(p) ==
    /\ pc[p] = "cs_all"
    /\ "session" \in legs[p]
    /\ \E ok \in Responses :
        IF ok /\ arg[p].sid \in SessionRowIds(sessions)
        THEN /\ sessions' = PatchSession(sessions, arg[p].sid, "active")
             /\ Answered(p, "session", loc[p].actOk)
        ELSE /\ Rejected(p, "session", IF ok THEN "NotFound" ELSE "StoreError")
             /\ UNCHANGED sessions
    /\ UNCHANGED <<status, activities, deliverables, issued, faults>>
    /\ Track

\* completeSubAgent undoing its activity and deliverables when the session
\* PATCH fails.
completeSubAgent_patchRollback(p) ==
    /\ pc[p] = "cs_all"
    /\ "session" \in legs[p]
    /\ \E ok \in Responses :
        IF ok /\ arg[p].sid \in SessionRowIds(sessions)
        THEN /\ sessions' = PatchSession(sessions, arg[p].sid, "completed")
             /\ Answered(p, "session", loc[p].actOk)
             /\ UNCHANGED <<activities, deliverables>>
        ELSE /\ Rejected(p, "session", IF ok THEN "NotFound" ELSE "StoreError")
             /\ activities' = activities \ {"completed"}
             /\ deliverables' = deliverables \ arg[p].dels
             /\ UNCHANGED sessions
    /\ UNCHANGED <<status, issued, faults>>
    /\ Track

\* apiPatch(`/api/openclaw/sessions/${sessionId}`, {status: 'completed', ended_at})
completeSubAgent_patch(p) ==
    /\ pc[p] = "cs_all"
    /\ "session" \in legs[p]
    /\ \E ok \in Responses :
        IF ok /\ arg[p].sid \in SessionRowIds(sessions)
        THEN /\ sessions' = PatchSession(sessions, arg[p].sid, "completed")
             /\ Answered(p, "session", loc[p].actOk)
        ELSE /\ Rejected(p, "session", IF ok THEN "NotFound" ELSE "StoreError")
             /\ UNCHANGED sessions
    /\ UNCHANGED <<status, activities, deliverables, issued, faults>>
    /\ Track

deleteStuckSession_delete(p) ==
    /\ Idle(p)
    /\ \E sid \in SessionIds, ok \in Responses :
        LET a == [NoArg EXCEPT !.sid = sid]
        IN  IF ok /\ sid \in SessionRowIds(sessions)
            THEN /\ sessions' = DeleteSession(sessions, sid)
                 /\ Finish(p, a, [Result(p, "deleteStuckSession", "ok") EXCEPT
                                     !.sid = sid])
            ELSE /\ UNCHANGED sessions
                 /\ Finish(p, a, [Result(p, "deleteStuckSession",
                                         IF ok THEN "NotFound" ELSE "StoreError")
                                     EXCEPT !.sid = sid])
    /\ UNCHANGED <<status, activities, deliverables, issued, faults, legs>>
    /\ Track

(***************************************************************************)
(* logActivity, logDeliverable                                             *)
(***************************************************************************)
\* logActivity letting the failure of its POST reach the caller.
logActivity_postThrowing(p, Types) ==
    /\ Idle(p)
    /\ \E t \in Types, ok \in Responses :
        /\ activities' = IF ok THEN activities \cup {t} ELSE activities
        /\ Finish(p, [NoArg EXCEPT !.atype = t],
                  [Result(p, "logActivity", IF ok THEN "ok" ELSE "StoreError")
                      EXCEPT !.actOk = ok])
    /\ UNCHANGED <<status, sessions, deliverables, issued, faults, legs>>
    /\ Track

\* try { await apiPost(.../activities, {...}) } catch { console.warn(...) }
logActivity_post(p, Types) ==
    /\ Idle(p)
    /\ \E t \in Types, ok \in Responses :
        /\ activities' = IF ok THEN activities \cup {t} ELSE activities
        /\ Finish(p, [NoArg EXCEPT !.atype = t],
                  [Result(p, "logActivity", "ok") EXCEPT !.actOk = ok])
    /\ UNCHANGED <<status, sessions, deliverables, issued, faults, legs>>
    /\ Track

\* the outside-root warning, then try { await apiPost(.../deliverables) }
\* catch { console.warn(...) }
logDeliverable_post(p, Ds) ==
    /\ Idle(p)
    /\ \E d \in Ds, ok \in Responses :
        /\ deliverables' = IF ok THEN deliverables \cup {d} ELSE deliverables
        /\ Finish(p, [NoArg EXCEPT !.del = d],
                  [Result(p, "logDeliverable", "ok") EXCEPT
                      !.actOk = ok, !.warned = WarnsOutsideBase(d)])
    /\ UNCHANGED <<status, sessions, activities, issued, faults, legs>>
    /\ Track

(***************************************************************************)
(* endStateCheck                                                           *)
(***************************************************************************)
\* 1. const deliverables = await getDeliverables(taskId)  ([] on failure)
endStateCheck_getDeliverables(p) ==
    /\ Idle(p)
    /\ \E ok \in Responses :
        LET read == IF ok THEN deliverables ELSE {}
        IN  Suspend(p, "endStateCheck", NoArg,
                    [NoLoc EXCEPT !.dr = Cardinality(read) > 0], "es_sessions")
    /\ UNCHANGED <<store, faults, legs>>
    /\ Track

\* 3. const sessions = await apiGet(.../subagent)
endStateCheck_getSessions(p) ==
    /\ pc[p] = "es_sessions"
    /\ \E ok \in Responses :
        IF ~ok THEN Finish(p, NoArg, Result(p, "endStateCheck", "StoreError"))
        ELSE Suspend(p, "endStateCheck", NoArg,
                     [loc[p] EXCEPT !.sc = Len(ActiveSessions(sessions)) = 0],
                     "es_activities")
    /\ UNCHANGED <<store, faults, legs>>
    /\ Track

\* 4. const activities = await apiGet(.../activities)
endStateCheck_getActivities(p) ==
    /\ pc[p] = "es_activities"
    /\ \E ok \in Responses :
        IF ~ok THEN Finish(p, NoArg, Result(p, "endStateCheck", "StoreError"))
        ELSE Suspend(p, "endStateCheck", NoArg,
                     [loc[p] EXCEPT !.ca = "completed" \in activities], "es_task")
    /\ UNCHANGED <<store, faults, legs>>
    /\ Track

\* ready without the sessions sub-check.
ReadyIgnoringSessions(dr, sc, ca, sr, st) == dr /\ ca /\ (sr \/ st = "done")

\* ready without the completion-activity sub-check.
ReadyIgnoringActivity(dr, sc, ca, sr, st) == dr /\ sc /\ (sr \/ st = "done")

\* ready without the allowance for a task that is done.
ReadyWithoutDone(dr, sc, ca, sr, st) == dr /\ sc /\ ca /\ sr

\* ready = deliverablesRegistered && sessionsCompleted &&
\*         completionActivityLogged && (statusIsReview || status === 'done')
Ready(dr, sc, ca, sr, st) == dr /\ sc /\ ca /\ (sr \/ st = "done")

\* 5. const task = await apiGet(`/api/tasks/${taskId}`); build the report
endStateCheck_getTask(p) ==
    /\ pc[p] = "es_task"
    /\ \E ok \in Responses :
        IF ~ok THEN Finish(p, NoArg, Result(p, "endStateCheck", "StoreError"))
        ELSE LET sr == status = "review"
             IN  Finish(p, NoArg, [Result(p, "endStateCheck", "ok") EXCEPT
                    !.from = status,
                    !.report = [deliverablesRegistered |-> loc[p].dr,
                                allDeliverablesExist |-> TRUE,
                                sessionsCompleted |-> loc[p].sc,
                                completionActivityLogged |-> loc[p].ca,
                                statusIsReview |-> sr,
                                ready |-> Ready(loc[p].dr, loc[p].sc,
                                                loc[p].ca, sr, status)]])
    /\ UNCHANGED <<store, faults, legs>>
    /\ Track

(***************************************************************************)
(* Other actors writing the task's status                                  *)
(***************************************************************************)
callers == <<op, pc, arg, loc, legs, flow>>

\* MissionQueue.handleDrop: PATCH /api/tasks/{id} {status: targetStatus},
\* sent without an agent id.
MissionQueue_handleDrop ==
    /\ \E targetStatus \in Statuses :
        /\ targetStatus # status
        /\ PatchTaskAccepts(status, targetStatus, FALSE)
        /\ status' = targetStatus
    /\ ret' = NoRet
    /\ UNCHANGED <<sessions, activities, deliverables, issued, faults, callers>>
    /\ Track

\* POST /api/tasks/{id}/validate {autoRework}
validate_POST ==
    /\ deliverables # {}
    /\ \E autoRework \in BOOLEAN, contentPasses \in BOOLEAN :
        LET results   == {d \in deliverables :
                              DeliverableType(d) = "file" /\ DeliverablePath(d) # <<>>}
            allPassed == results = {} \/ contentPasses
        IN  /\ activities' = activities \cup {"status_changed"}
            /\ status' = IF ~allPassed /\ autoRework THEN "in_progress" ELSE status
    /\ ret' = NoRet
    /\ UNCHANGED <<sessions, deliverables, issued, faults, callers>>
    /\ Track

\* POST /api/webhooks/telegram with a TASK_COMPLETE message from the agent
\* the task is assigned to.
telegram_POST ==
    /\ status \in {"assigned", "in_progress"}
    /\ IF status # "testing" /\ status # "review" /\ status # "done"
       THEN status' = "testing"
       ELSE UNCHANGED status
    /\ ret' = NoRet
    /\ UNCHANGED <<sessions, activities, deliverables, issued, faults, callers>>
    /\ Track

(***************************************************************************)
(* Specifications                                                          *)
(***************************************************************************)
\* The lifecycle: every writer of the task's status, run concurrently.
Next ==
    \/ \E p \in Callers : transitionStatus_get(p)
    \/ \E p \in Callers : transitionStatus_patch(p)
    \/ \E p \in Callers : startWork_get(p)
    \/ \E p \in Callers : moveToReview_getDeliverables(p)
    \/ \E p \in Callers : logDeliverable_post(p, {"fileIn", "url"})
    \/ MissionQueue_handleDrop
    \/ validate_POST
    \/ telegram_POST

Spec == Init /\ [][Next]_vars

\* The session manager: spawn, complete and delete, run concurrently.
NextSessions ==
    \/ \E p \in Callers : spawnSubAgent_list(p)
    \/ \E p \in Callers : spawnSubAgent_logReuse(p)
    \/ \E p \in Callers : spawnSubAgent_post(p)
    \/ \E p \in Callers : Call_completeSubAgent(p, {{}, {"fileIn"}})
    \/ \E p \in Callers : completeSubAgent_patch(p)
    \/ \E p \in Callers : all_logActivity(p)
    \/ \E p \in Callers : all_logDeliverable(p)
    \/ \E p \in Callers : deleteStuckSession_delete(p)

SpecSessions == Init /\ [][NextSessions]_vars

\* One orchestrator alone with a store that answers every request.
Solo == CHOOSE p \in Callers : \A q \in Callers : p <= q

NextSolo ==
    \/ preflight_getTask(Solo)
    \/ preflight_getSessions(Solo)
    \/ transitionStatus_get(Solo)
    \/ transitionStatus_patch(Solo)
    \/ startWork_get(Solo)
    \/ moveToReview_getDeliverables(Solo)
    \/ spawnSubAgent_list(Solo)
    \/ spawnSubAgent_logReuse(Solo)
    \/ spawnSubAgent_post(Solo)
    \/ Call_completeSubAgent(Solo, DeliverableArgs)
    \/ completeSubAgent_patch(Solo)
    \/ all_logActivity(Solo)
    \/ all_logDeliverable(Solo)
    \/ deleteStuckSession_delete(Solo)
    \/ logActivity_post(Solo, {"updated"})
    \/ logDeliverable_post(Solo, DeliverableIds)
    \/ endStateCheck_getDeliverables(Solo)
    \/ endStateCheck_getSessions(Solo)
    \/ endStateCheck_getActivities(Solo)
    \/ endStateCheck_getTask(Solo)

SpecSolo == InitWith(FALSE) /\ [][NextSolo]_vars

\* One orchestrator alone with a store whose requests may fail: the recorder,
\* the reads of the deliverables and the auditor.
NextSoloFaults ==
    \/ logActivity_post(Solo, {"updated", "completed"})
    \/ logDeliverable_post(Solo, DeliverableIds)
    \/ startWork_get(Solo)
    \/ moveToReview_getDeliverables(Solo)
    \/ transitionStatus_get(Solo)
    \/ transitionStatus_patch(Solo)
    \/ endStateCheck_getDeliverables(Solo)
    \/ endStateCheck_getSessions(Solo)
    \/ endStateCheck_getActivities(Solo)
    \/ endStateCheck_getTask(Solo)

SpecSoloFaults == InitWith(TRUE) /\ [][NextSoloFaults]_vars

\* The auditor among concurrent callers: endStateCheck runs while sessions
\* are spawned and completed and the mission queue moves the task; the store
\* answers every request.
NextAudit ==
    \/ \E p \in Callers : endStateCheck_getDeliverables(p)
    \/ \E p \in Callers : endStateCheck_getSessions(p)
    \/ \E p \in Callers : endStateCheck_getActivities(p)
    \/ \E p \in Callers : endStateCheck_getTask(p)
    \/ \E p \in Callers : spawnSubAgent_list(p)
    \/ \E p \in Callers : spawnSubAgent_logReuse(p)
    \/ \E p \in Callers : spawnSubAgent_post(p)
    \/ \E p \in Callers : Call_completeSubAgent(p, {{"fileIn"}})
    \/ \E p \in Callers : completeSubAgent_patch(p)
    \/ \E p \in Callers : all_logActivity(p)
    \/ \E p \in Callers : all_logDeliverable(p)
    \/ MissionQueue_handleDrop

SpecAudit == InitWith(FALSE) /\ [][NextAudit]_vars

(***************************************************************************)
(* Properties                                                              *)
(***************************************************************************)
\* Position of a status in the lifecycle inbox < assigned < in_progress <
\* testing < review < done.
StatusRank(s) ==
    CASE s = "inbox"       -> 1
      [] s = "assigned"    -> 2
      [] s = "in_progress" -> 3
      [] s = "testing"     -> 4
      [] s = "review"      -> 5
      [] s = "done"        -> 6

ActiveIds(rows) == {rows[i].sid : i \in {j \in 1..Len(rows) : rows[j].status = "active"}}

\* C1: no step of any writer of the task's status (transitionStatus,
\* startWork, moveToReview, the validate route, the Telegram webhook, the
\* mission queue) lowers the task's position in the lifecycle order.
C1_StatusNeverRegresses ==
    [][StatusRank(status') >= StatusRank(status)]_vars

\* C2: whatever the interleaving of concurrent spawnSubAgent calls, the store
\* holds at most one session with status 'active' for the task.
C2_AtMostOneActiveSession ==
    Cardinality(ActiveIds(sessions)) <= 1 /\ Len(ActiveSessions(sessions)) <= 1

\* Two spawnSubAgent calls both read a list without an active session; the
\* session of one is registered while the POST of the other is in flight.
C2_Witness ==
    \E p \in Callers :
        /\ pc[p] = "sp_all"
        /\ "session" \in legs[p]
        /\ Len(ActiveSessions(sessions)) = 1

\* C3: a spawnSubAgent call that finds an active session goes to the reuse
\* branch with the id of an active session, however many such calls are
\* made; it returns reused:true with that id, registers no session, and the
\* id is still that of an active session unless someone completed or deleted
\* it meanwhile.  (A call whose list request the store fails throws instead.)
C3_ReusesActiveSession ==
    [][\A p \in Callers :
        /\ (Idle(p) /\ HasActive(sessions) /\ op'[p] = "spawnSubAgent") =>
              /\ pc'[p] = "sp_reuse"
              /\ loc'[p].sid \in ActiveIds(sessions)
              /\ sessions' = sessions
        /\ (Idle(p) /\ HasActive(sessions) /\ ret'.op = "spawnSubAgent"
               /\ ret'.caller = <<p>>) =>
              /\ ret'.out = "StoreError"
              /\ sessions' = sessions
        /\ (pc[p] = "sp_reuse" /\ pc'[p] # "sp_reuse") =>
              /\ ret'.op = "spawnSubAgent" /\ ret'.out = "ok" /\ ret'.reused
              /\ ret'.sid = loc[p].sid
              /\ sessions' = sessions
              /\ loc[p].sid \in ActiveIds(sessions) => ret'.sid \in ActiveIds(sessions')
    ]_vars

\* A spawnSubAgent call has returned reused:true with the id of the active
\* session while a second call for the task is in its reuse branch too.
C3_Witness ==
    /\ ret.op = "spawnSubAgent" /\ ret.out = "ok" /\ ret.reused
    /\ ret.sid \in ActiveIds(sessions)
    /\ Len(sessions) = 1
    /\ \E q \in Callers : pc[q] = "sp_reuse" /\ loc[q].sid = ret.sid

C5_MoveToReviewPrecondition ==
    [][/\ (Idle(Solo) /\ deliverables = {}
              /\ (op'[Solo] = "moveToReview" \/ ret'.op = "moveToReview")) =>
              /\ ret'.op = "moveToReview" /\ ret'.out = "PreconditionFailed"
              /\ pc'[Solo] = "idle"
              /\ status' = status
       /\ (op'[Solo] = "moveToReview" /\ pc'[Solo] = "ts_patch") => deliverables # {}
       /\ (Idle(Solo) /\ deliverables # {}
              /\ (op'[Solo] = "moveToReview" \/ ret'.op = "moveToReview")) =>
              pc'[Solo] = "ts_get"
       /\ (op[Solo] = "moveToReview" /\ pc[Solo] = "ts_get" /\ status = "in_progress") =>
              pc'[Solo] = "ts_patch" /\ loc'[Solo].st = "in_progress"
       /\ (op[Solo] = "moveToReview" /\ pc[Solo] = "ts_patch"
              /\ loc[Solo].st = "in_progress") =>
              /\ ret'.op = "moveToReview" /\ ret'.out = "ok"
              /\ status = "in_progress" /\ status' = "review"
    ]_vars

\* moveToReview has moved an in_progress task with a deliverable to review.
C5_Witness ==
    /\ ret.op = "moveToReview" /\ ret.out = "ok"
    /\ ret.from = "in_progress" /\ ret.to = "review"
    /\ deliverables # {}
    /\ status = "review"

\* C6: the endStateCheck that ends the documented flow (preflight on an
\* assigned task, startWork, spawnSubAgent, completeSubAgent with at least
\* one deliverable, endStateCheck) reports ready, so that the flow goes on to
\* moveToReview.
C6_DocumentedFlowIsReady ==
    (flow[Solo].step = 5 /\ ret.op = "endStateCheck" /\ ret.out = "ok") =>
        ret.report.ready

\* C7 as stated: ready is the conjunction of the five sub-checks reported.
C7_ReadyIsAndOfFive ==
    (ret.op = "endStateCheck" /\ ret.out = "ok") =>
        (ret.report.ready <=>
            /\ ret.report.deliverablesRegistered
            /\ ret.report.allDeliverablesExist
            /\ ret.report.sessionsCompleted
            /\ ret.report.completionActivityLogged
            /\ ret.report.statusIsReview)

\* C7 amended: ready is the conjunction of deliverablesRegistered,
\* allDeliverablesExist, sessionsCompleted, completionActivityLogged and
\* (statusIsReview or the task's status is done).
C7_ReadyIsAndWithDone ==
    (ret.op = "endStateCheck" /\ ret.out = "ok") =>
        (ret.report.ready <=>
            /\ ret.report.deliverablesRegistered
            /\ ret.report.allDeliverablesExist
            /\ ret.report.sessionsCompleted
            /\ ret.report.completionActivityLogged
            /\ (ret.report.statusIsReview \/ ret.from = "done"))

\* endStateCheck on a done task reports ready although statusIsReview is false.
C7_Witness ==
    /\ ret.op = "endStateCheck" /\ ret.out = "ok"
    /\ ret.from = "done"
    /\ ~ret.report.statusIsReview
    /\ ret.report.ready

\* C8: the ready flag endStateCheck returns is true exactly when the task
\* has at least one registered deliverable, no active session, at least one
\* 'completed' activity and the status review or done.
C8_ReadyIffStoreContents ==
    (ret.op = "endStateCheck" /\ ret.out = "ok") =>
        (ret.report.ready <=>
            /\ Cardinality(deliverables) >= 1
            /\ ActiveIds(sessions) = {}
            /\ "completed" \in activities
            /\ status \in {"review", "done"})

\* endStateCheck reports ready a task in review that has had a session.
C8_Witness ==
    /\ ret.op = "endStateCheck" /\ ret.out = "ok"
    /\ ret.report.ready
    /\ status = "review"
    /\ Len(sessions) >= 1

\* C9: the task's status becomes done only in the PATCH of a transitionStatus
\* call made with a master agent's id: no call of transitionStatus without
\* one, of startWork or of moveToReview, and no other actor, moves it there.
C9_DoneNeedsMaster ==
    [][(status' = "done" /\ status # "done") =>
          \E p \in Callers :
              /\ pc[p] = "ts_patch" /\ op[p] = "transitionStatus"
              /\ arg[p].to = "done" /\ arg[p].master
              /\ ret'.caller = <<p>> /\ ret'.out = "ok"
    ]_vars

\* A transition to done requested without master approval has been refused
\* on a task in review.
C9_Witness ==
    /\ ret.op = "transitionStatus" /\ ret.out = "Rejected" /\ ret.to = "done"
    /\ status = "review"

\* C10: isValidTransition(from, to) is true exactly when to comes strictly
\* after from in the lifecycle order, for all pairs of the six statuses and
\* for every pair transitionStatus validates; it is false when from = to.
C10_ValidIffStrictlyLater ==
    /\ \A from \in Statuses, to \in Statuses :
           isValidTransition(from, to) <=> StatusRank(to) > StatusRank(from)
    /\ \A p \in Callers :
           pc[p] = "ts_patch" => StatusRank(arg[p].to) > StatusRank(loc[p].st)
    /\ ret.out = "InvalidTransition" => StatusRank(ret.to) <= StatusRank(ret.from)

\* transitionStatus has rejected a transition from a status to itself.
C10_Witness ==
    /\ ret.op = "transitionStatus"
    /\ ret.out = "InvalidTransition"
    /\ ret.from = ret.to

\* C11: transitionStatus validates its target against the status it has
\* just read from the store.  When the target is not strictly later than that
\* status, the call ends there with the invalid-transition error naming that
\* status and the target, and the stored status is as it was; a PATCH is
\* sent only for a target strictly later than the status read.
C11_InvalidTransitionNoPatch ==
    [][\A p \in Callers :
        /\ (ret'.caller = <<p>> /\ ret'.out = "InvalidTransition") =>
              /\ pc[p] \in {"idle", "ts_get"} /\ pc'[p] = "idle"
              /\ ret'.from = status
              /\ StatusRank(ret'.to) <= StatusRank(status)
              /\ status' = status
        /\ (pc[p] \in {"idle", "ts_get"} /\ pc'[p] = "ts_patch") =>
              /\ loc'[p].st = status
              /\ StatusRank(arg'[p].to) > StatusRank(status)
              /\ status' = status
    ]_vars

\* transitionStatus to in_progress on a task in review has failed with the
\* error naming review and in_progress; the task is still in review.
C11_Witness ==
    /\ ret.op = "transitionStatus" /\ ret.out = "InvalidTransition"
    /\ ret.from = "review" /\ ret.to = "in_progress"
    /\ status = "review"

C13_StartWork ==
    [][/\ (Idle(Solo) /\ (op'[Solo] = "startWork" \/ ret'.op = "startWork")) =>
              /\ status' = status
              /\ status = "assigned" =>
                    /\ pc'[Solo] = "ts_get" /\ arg'[Solo].to = "in_progress"
              /\ status = "in_progress" =>
                    /\ ret'.op = "startWork" /\ ret'.out = "ok" /\ ret'.null
                    /\ pc'[Solo] = "idle"
              /\ status \notin {"assigned", "in_progress"} =>
                    /\ ret'.op = "startWork" /\ ret'.out = "CannotStart"
                    /\ pc'[Solo] = "idle"
       /\ (op[Solo] = "startWork" /\ pc[Solo] = "ts_get") =>
              /\ status = "assigned"
              /\ pc'[Solo] = "ts_patch" /\ status' = status
       /\ (op[Solo] = "startWork" /\ pc[Solo] = "ts_patch") =>
              /\ ret'.op = "startWork" /\ ret'.out = "ok" /\ ~ret'.null
              /\ status = "assigned" /\ status' = "in_progress"
    ]_vars

\* A repeated startWork has returned null on a task that is in_progress.
C13_Witness ==
    /\ ret.op = "startWork" /\ ret.out = "ok" /\ ret.null
    /\ ret.from = "in_progress"
    /\ status = "in_progress"

\* C14: preflight returns canStart = TRUE exactly when the status its own
\* GET returned is assigned or in_progress, with or without an active
\* session, and no step of preflight writes to the store.
C14_CanStartIffAssignedOrInProgress ==
    [][(op'[Solo] = "preflight" \/ ret'.op = "preflight") =>
          /\ store' = store
          /\ ret'.out = "ok" =>
                /\ ret'.from = loc[Solo].st /\ ret'.from = status
                /\ ret'.canStart <=> ret'.from \in {"assigned", "in_progress"}
                /\ ret'.hasActiveSession <=> ActiveIds(sessions) # {}
    ]_vars

\* preflight has reported canStart on an in_progress task that has an
\* active session.
C14_Witness ==
    /\ ret.op = "preflight" /\ ret.out = "ok"
    /\ ret.from = "in_progress"
    /\ ret.canStart /\ ret.hasActiveSession

\* C15: the outputDir preflight returns is safePath of the dispatcher's
\* directory when one is given, else of the outputDir in the task's metadata
\* when there is one, else of PROJECTS_BASE/taskId/.
C15_OutputDirPriority ==
    [][(pc[Solo] = "pf_sessions" /\ ret'.op = "preflight" /\ ret'.out = "ok") =>
          ret'.outputDir =
              safePath(IF arg[Solo].dir # NoDir THEN arg[Solo].dir
                       ELSE IF loc[Solo].meta # NoDir THEN loc[Solo].meta
                       ELSE DefaultDir(PROJECTS_BASE),
                       TaskId)
    ]_vars

\* The directory names of a path: its maximal runs of characters other
\* than "/".
RECURSIVE Segments(_)
Segments(s) ==
    IF s = <<>> THEN <<>>
    ELSE LET k    == IF \E i \in 1..Len(s) : s[i] = "/"
                     THEN CHOOSE i \in 1..Len(s) :
                              s[i] = "/" /\ \A j \in 1..(i-1) : s[j] # "/"
                     ELSE Len(s) + 1
             seg  == SubSeq(s, 1, k - 1)
             rest == SubSeq(s, k + 1, Len(s))
         IN  (IF seg = <<>> THEN <<>> ELSE <<seg>>) \o Segments(rest)

\* The location a list of directory names denotes: each ".." drops the
\* name before it.
RECURSIVE Resolve(_, _)
Resolve(segs, out) ==
    IF segs = <<>> THEN out
    ELSE IF Head(segs) = <<".", ".">>
    THEN Resolve(Tail(segs), IF out = <<>> THEN out ELSE SubSeq(out, 1, Len(out) - 1))
    ELSE Resolve(Tail(segs), Append(out, Head(segs)))

\* The path denotes PROJECTS_BASE or a location below it.
InsideRoot(path) ==
    LET root   == Resolve(Segments(ExpandHome(PROJECTS_BASE)), <<>>)
        target == Resolve(Segments(ExpandHome(path)), <<>>)
    IN  /\ Len(root) <= Len(target)
        /\ SubSeq(target, 1, Len(root)) = root

\* C16: what safePath returns begins with the home-expanded PROJECTS_BASE,
\* for every candidate preflight hands it (under the root, outside it, with
\* ../.. in it) and in every outputDir preflight returns.
C16_SafePathHasRootPrefix ==
    /\ \A c \in DispatcherDirs \cup MetadataDirs \cup {DefaultDir(PROJECTS_BASE)} :
           StartsWith(safePath(c, TaskId), ExpandHome(PROJECTS_BASE))
    /\ (ret.op = "preflight" /\ ret.out = "ok") =>
           StartsWith(ret.outputDir, ExpandHome(PROJECTS_BASE))

\* preflight has returned the dispatcher's root/../../e, home-expanded.
C16_Witness ==
    /\ ret.op = "preflight" /\ ret.out = "ok"
    /\ ret.outputDir = <<"/", "h", "/", "p", "/", ".", ".", "/", ".", ".", "/", "e">>

\* C17: the outputDir preflight returns denotes the root or a location
\* below it once its ".." names are resolved.
C17_OutputDirInsideRoot ==
    (ret.op = "preflight" /\ ret.out = "ok") => InsideRoot(ret.outputDir)

\* C18: every file deliverable the store holds has a path under the
\* home-expanded PROJECTS_BASE.
C18_FileDeliverablesUnderRoot ==
    \A d \in deliverables :
        DeliverableType(d) = "file" =>
            StartsWith(ExpandHome(DeliverablePath(d)), ExpandHome(PROJECTS_BASE))

\* C19: a task in review has at least one registered deliverable.
C19_ReviewHasDeliverable ==
    status = "review" => Cardinality(deliverables) >= 1

\* C20: no step taken while the task is done changes its status, its
\* sessions or its deliverables.
C20_DoneIsFrozen ==
    [][status = "done" =>
          /\ status' = status
          /\ sessions' = sessions
          /\ deliverables' = deliverables
    ]_vars

\* C21: when transitionStatus applies its PATCH, the status it read and
\* validated is still the stored status: no other write landed between its
\* GET and its PATCH.
C21_ValidatedStatusStillStored ==
    [][\A p \in Callers :
          (pc[p] = "ts_patch" /\ op[p] = "transitionStatus" /\ pc'[p] = "idle")
              => status = loc[p].st]_vars

\* C21 (amended): transitionStatus sends its PATCH only for a transition that
\* is valid from the status its own GET read, and reports that status as the
\* origin; the status stored when the PATCH is applied may differ, since
\* another write can land between the two requests.
C21_PatchValidFromStatusRead ==
    [][\A p \in Callers :
          (pc[p] = "ts_patch" /\ op[p] = "transitionStatus" /\ pc'[p] = "idle")
              => /\ isValidTransition(loc[p].st, arg[p].to)
                 /\ ret'.out = "ok" => (ret'.from = loc[p].st /\ status' = arg[p].to)
                 /\ ret'.out # "ok" => status' = status]_vars

\* A transitionStatus call whose PATCH the store refused because another
\* actor moved the task past the target between the GET and the PATCH.
C21_Witness ==
    /\ ret.op = "transitionStatus"
    /\ ret.out = "Rejected"
    /\ ret.to # "done"
    /\ StatusRank(status) > StatusRank(ret.to)

\* C22: logActivity and logDeliverable return normally whatever the store
\* answers; when their POST fails nothing is raised and the activities and
\* the deliverables of the store are left as they were.
C22_LoggingNeverThrows ==
    [][(Idle(Solo) /\ ret'.op \in {"logActivity", "logDeliverable"})
          => /\ ret'.caller = <<Solo>>
             /\ ret'.out = "ok"
             /\ ~ret'.actOk => (activities' = activities /\ deliverables' = deliverables)
             /\ ret'.actOk => (activities' # {} \/ deliverables' # {})]_vars

\* A logActivity call that returned normally although its POST failed.
C22_Witness ==
    /\ ret.op = "logActivity"
    /\ ret.out = "ok"
    /\ ~ret.actOk
    /\ "updated" \notin activities

\* C23: a logDeliverable call warns exactly when the deliverable is of type
\* file and its path is not under PROJECTS_BASE, absolute paths outside the
\* root included, and it posts the registration in both cases.
C23_WarnsIffOutsideRoot ==
    [][\A d \in DeliverableIds :
          (Idle(Solo) /\ ret'.op = "logDeliverable"
              /\ d \notin deliverables /\ deliverables' = deliverables \cup {d})
              => (ret'.warned <=>
                      /\ DeliverableType(d) = "file"
                      /\ ~StartsWith(ExpandHome(DeliverablePath(d)),
                                     ExpandHome(PROJECTS_BASE)))]_vars

\* C24: a failed deliverables read reaches the caller of getDeliverables as
\* a failure, never as a list: moveToReview, which reads through
\* getDeliverables, reports that no deliverable is registered only for a
\* task that has none.
C24_DeliverablesReadFailurePropagates ==
    [][(Idle(Solo) /\ ret'.op = "moveToReview" /\ ret'.out = "PreconditionFailed")
          => deliverables = {}]_vars

\* C25: a completeSubAgent call fails only in the step in which its session
\* PATCH fails; a failed completion-activity POST or deliverable POST never
\* fails it.  Once the session PATCH has succeeded the call goes on to
\* return normally, and when it returns the session it names is completed.
C25_FailsOnlyBySessionPatch ==
    [][\A p \in Callers :
          /\ (ret'.caller = <<p>> /\ ret'.op = "completeSubAgent" /\ ret'.out # "ok")
                => /\ pc[p] = "cs_all"
                   /\ "session" \in legs[p] /\ "session" \notin legs'[p]
                   /\ sessions' = sessions
          /\ (pc[p] = "cs_all" /\ "session" \notin legs[p])
                => \/ pc'[p] = "cs_all"
                   \/ /\ pc'[p] = "idle"
                      /\ ret'.caller = <<p>>
                      /\ ret'.op = "completeSubAgent"
                      /\ ret'.out = "ok"
          /\ (ret'.caller = <<p>> /\ ret'.op = "completeSubAgent" /\ ret'.out = "ok")
                => \A i \in 1..Len(sessions') :
                       sessions'[i].sid = ret'.sid => sessions'[i].status = "completed"]_vars

\* completeSubAgent has returned normally, its session completed, although
\* the store refused its completion activity and holds no deliverable.
C25_Witness ==
    /\ ret.op = "completeSubAgent" /\ ret.out = "ok" /\ ~ret.actOk
    /\ "completed" \notin activities
    /\ deliverables = {}
    /\ \E i \in 1..Len(sessions) :
          sessions[i].sid = ret.sid /\ sessions[i].status = "completed"

\* C26: every endStateCheck call returns a report, whichever of its reads
\* the store fails: a failed read only makes a check of the report false.
C26_EndStateCheckAlwaysReports ==
    ret.op = "endStateCheck" => ret.out = "ok"

\* C27: the sessionId a spawnSubAgent call returns names a session that the
\* store registered for the task (active at the return unless another caller
\* has completed or deleted it since), also when the store answered the
\* register POST with the active session it already held.
C27_ReturnedSessionIsRegistered ==
    (ret.op = "spawnSubAgent" /\ ret.out = "ok") => ret.sid \in issued

\* C29: the legs of completeSubAgent are independent and nothing is rolled
\* back: a session PATCH for a session the store does not hold fails the
\* call, and the step in which the call fails leaves the sessions, the
\* activities and the deliverables as they are; no step removes an activity
\* or a deliverable, and the other legs of a failed call still reach the store.
C29_FailureRollsNothingBack ==
    [][\A p \in Callers :
          /\ (pc[p] = "cs_all" /\ "session" \in legs[p] /\ "session" \notin legs'[p]
                 /\ arg[p].sid \notin SessionRowIds(sessions))
                => /\ ret'.caller = <<p>>
                   /\ ret'.op = "completeSubAgent"
                   /\ ret'.out \in {"NotFound", "StoreError"}
          /\ (ret'.caller = <<p>> /\ ret'.op = "completeSubAgent" /\ ret'.out # "ok")
                => /\ sessions' = sessions
                   /\ activities' = activities
                   /\ deliverables' = deliverables
                   /\ legs'[p] = legs[p] \ {"session"}
          /\ activities \subseteq activities'
          /\ deliverables \subseteq deliverables']_vars

\* A completeSubAgent call has failed on its session PATCH: its session is
\* still active while the task holds the 'completed' activity and the
\* deliverable.
C29_Witness ==
    /\ ret.op = "completeSubAgent" /\ ret.out = "StoreError"
    /\ ret.sid \in ActiveIds(sessions)
    /\ "completed" \in activities
    /\ "fileIn" \in deliverables

\* C30: of two concurrent startWork calls on an assigned task, the one that
\* does not perform the transition returns null: when one call has just
\* returned the task it moved to in_progress and the store answers the other
\* call, already past its own read of the task, that call returns null and
\* the task is in_progress.
C30_SecondStartWorkReturnsNull ==
    [][\A p \in Callers :
          (/\ ret.op = "startWork" /\ ret.out = "ok" /\ ~ret.null
           /\ ret.caller # <<p>>
           /\ op[p] = "startWork" /\ pc'[p] = "idle"
           /\ ret'.out # "StoreError")
              => /\ ret'.out = "ok"
                 /\ ret'.null
                 /\ status' = "in_progress"]_vars

\* C28: whenever endStateCheck returns ready = true, the store has been,
\* at some moment between the call's first read and its return, in a single
\* state with at least one deliverable, no active session, a 'completed'
\* activity and the status review or done.
C28_ReadyHeldInOneState ==
    (ret.op = "endStateCheck" /\ ret.out = "ok" /\ ret.report.ready)
        => \E q \in held : ret.caller = <<q>>

\* C28 (amended): when endStateCheck returns ready = true, the store holds
\* at that moment at least one deliverable and a 'completed' activity and
\* the status is review or done; that no session is active was true when
\* the sessions were read and need not hold any more, nor need the four
\* conditions ever have held in one state.
C28_ReadyAtReturnButSessions ==
    (ret.op = "endStateCheck" /\ ret.out = "ok" /\ ret.report.ready)
        => /\ deliverables # {}
           /\ "completed" \in activities
           /\ status \in {"review", "done"}
           /\ ret.report.sessionsCompleted

\* endStateCheck has returned ready = true for a task with an active
\* session, during a call in which the conditions never held together.
C28_Witness ==
    /\ ret.op = "endStateCheck" /\ ret.out = "ok" /\ ret.report.ready
    /\ HasActive(sessions)
    /\ \A q \in held : ret.caller # <<q>>

====
